---- MODULE Spec2Model ----
(***************************************************************************)
(* aws-list-resources: one worker thread per target region reads the       *)
(* region's resource type registry, narrows it by the include / exclude    *)
(* patterns, lists every enabled type through the Cloud Control API,       *)
(* removes the account default resources and stores what is left in the    *)
(* shared result_collection, which the main thread dumps as JSON after     *)
(* the thread pool has been shut down.                                     *)
(*                                                                         *)
(* Python strings are tuples of one-character strings, so that fnmatch,    *)
(* startswith, "in", lower() and the string order used by sorted() are     *)
(* computed character by character as Python computes them.                *)
(*                                                                         *)
(* Spec is the program from the parsed arguments to the written document.  *)
(* SpecFilter runs apply_default_resources_filter on its own and           *)
(* SpecListTypes runs get_supported_resource_types on its own, request by  *)
(* request.                                                                *)
(***************************************************************************)
EXTENDS Integers, Sequences, FiniteSets, TLC

\* ------------------------------------------------------------------------
\* Strings
\* ------------------------------------------------------------------------

\* The printable ASCII characters in code point order; Alphabet[i] has code
\* point i + 31. The double quote, the backslash and the backtick are
\* written by name.
Alphabet ==
  <<" ","!","dquote","#","$","%","&","'","(",")","*","+",",","-",".","/",
    "0","1","2","3","4","5","6","7","8","9",":",";","<","=",">","?",
    "@","A","B","C","D","E","F","G","H","I","J","K","L","M","N","O",
    "P","Q","R","S","T","U","V","W","X","Y","Z","[","backslash","]","^","_",
    "backtick","a","b","c","d","e","f","g","h","i","j","k","l","m","n","o",
    "p","q","r","s","t","u","v","w","x","y","z","{","|","}","~">>
\* Regions (the elements of args.regions)
R_eu_west_1 ==
  <<"e","u","-","w","e","s","t","-","1">>
R_us_east_1 ==
  <<"u","s","-","e","a","s","t","-","1">>
\* A region that is not enabled in the account
R_me_south_1 ==
  <<"m","e","-","s","o","u","t","h","-","1">>
\* --regions ALL
S_ALL ==
  <<"A","L","L">>
\* Resource types of the modelled registry
T_AppConfig_Extension ==
  <<"A","W","S",":",":","A","p","p","C","o","n","f","i","g",":",":","E","x","t","e","n","s","i","o","n">>
T_KMS_Alias ==
  <<"A","W","S",":",":","K","M","S",":",":","A","l","i","a","s">>
T_KMS_Key ==
  <<"A","W","S",":",":","K","M","S",":",":","K","e","y">>
\* Include / exclude patterns
P_all ==
  <<"*">>
P_KMS_all ==
  <<"A","W","S",":",":","K","M","S",":",":","*">>
P_KMS_Key ==
  <<"A","W","S",":",":","K","M","S",":",":","K","e","y">>
P_KMS_3 ==
  <<"A","W","S",":",":","K","M","S",":",":","?","?","?">>
P_any_Alias ==
  <<"A","W","S",":",":","*",":",":","A","l","i","a","s">>
P_S3_all ==
  <<"A","W","S",":",":","S","3",":",":","*">>
\* Literals of apply_default_resources_filter
L_alias_aws ==
  <<"a","l","i","a","s","/","a","w","s","/">>
L_extension_AWS ==
  <<":",":","e","x","t","e","n","s","i","o","n","/","A","W","S",".">>
K_Arn ==
  <<"A","r","n">>
\* Keywords of get_resources
KW_denied ==
  <<"d","e","n","i","e","d">>
KW_authorization ==
  <<"a","u","t","h","o","r","i","z","a","t","i","o","n">>
KW_authorized ==
  <<"a","u","t","h","o","r","i","z","e","d">>
\* Message formats of analyze_region
F_unable ==
  <<"U","n","a","b","l","e"," ","t","o"," ","l","i","s","t"," ","s","u","p","p","o","r","t","e","d"," ","r","e","s","o","u","r","c","e"," ","t","y","p","e","s"," ","f","o","r"," ","r","e","g","i","o","n"," ">>
F_nomatch ==
  <<"P","r","o","v","i","d","e","d"," ","r","e","s","o","u","r","c","e"," ","t","y","p","e"," ","d","o","e","s"," ","n","o","t"," ","m","a","t","c","h"," ","a","n","y"," ","s","u","p","p","o","r","t","e","d"," ","r","e","s","o","u","r","c","e"," ","t","y","p","e","s"," ","i","n"," ","r","e","g","i","o","n"," ">>
F_denied ==
  <<"A","c","c","e","s","s"," ","d","e","n","i","e","d"," ","t","o"," ","l","i","s","t"," ","r","e","s","o","u","r","c","e"," ","t","y","p","e"," ","i","n"," ","r","e","g","i","o","n"," ">>
F_sep ==
  <<":"," ">>
\* Failure messages of the backend (str(ex))
M_AccessDenied ==
  <<"A","c","c","e","s","s","D","e","n","i","e","d","E","x","c","e","p","t","i","o","n">>
M_AuthorizationError ==
  <<"A","u","t","h","o","r","i","z","a","t","i","o","n","E","r","r","o","r">>
M_not_authorized ==
  <<"n","o","t"," ","a","u","t","h","o","r","i","z","e","d">>
M_Denied ==
  <<"D","e","n","i","e","d">>
M_NotFound ==
  <<"R","e","s","o","u","r","c","e","T","y","p","e","N","o","t","F","o","u","n","d","E","x","c","e","p","t","i","o","n",":"," ","u","n","k","n","o","w","n">>
M_Unsupported ==
  <<"U","n","s","u","p","p","o","r","t","e","d","A","c","t","i","o","n","E","x","c","e","p","t","i","o","n">>
M_Endpoint ==
  <<"E","n","d","p","o","i","n","t","C","o","n","n","e","c","t","i","o","n","E","r","r","o","r">>
M_json ==
  <<"E","x","p","e","c","t","i","n","g"," ","v","a","l","u","e",":"," ","l","i","n","e"," ","1"," ","c","o","l","u","m","n"," ","1"," ","(","c","h","a","r"," ","0",")">>
\* Identifiers and property values returned by the backend
I_alias_aws_s3 ==
  <<"a","l","i","a","s","/","a","w","s","/","s","3">>
I_alias_app ==
  <<"a","l","i","a","s","/","a","p","p">>
I_key_1 ==
  <<"k","e","y","-","1">>
I_key_2 ==
  <<"k","e","y","-","2">>
I_ext_1 ==
  <<"e","x","t","-","1">>
I_ext_2 ==
  <<"e","x","t","-","2">>
V_arn_aws_ext ==
  <<"a","r","n",":",":","e","x","t","e","n","s","i","o","n","/","A","W","S",".","X">>
V_arn_own_ext ==
  <<"a","r","n",":","1",":","e","x","t","e","n","s","i","o","n","/","o","w","n">>
K_Name ==
  <<"N","a","m","e">>
V_name ==
  <<"n">>

OrdOf ==
  [c \in {Alphabet[i] : i \in 1..Len(Alphabet)} |->
     31 + (CHOOSE i \in 1..Len(Alphabet) : Alphabet[i] = c)]

\* ord(c)
Ord(c) == OrdOf[c]

\* str.lower(), on ASCII
lower(s) ==
  [i \in 1..Len(s) |->
     IF Ord(s[i]) \in 65..90 THEN Alphabet[Ord(s[i]) + 32 - 31] ELSE s[i]]

\* sub in s
Contains(sub, s) ==
  \E k \in 0..(Len(s) - Len(sub)) : SubSeq(s, k + 1, k + Len(sub)) = sub

\* s.startswith(prefix)
startswith(s, prefix) ==
  Len(prefix) <= Len(s) /\ SubSeq(s, 1, Len(prefix)) = prefix

\* a < b on Python strings: code point order, a proper prefix sorts first
StrLess(a, b) ==
  \E k \in 1..(Len(a) + 1) :
     /\ k <= Len(b) + 1
     /\ \A i \in 1..(k - 1) : a[i] = b[i]
     /\ \/ k = Len(a) + 1 /\ k <= Len(b)
        \/ k <= Len(a) /\ k <= Len(b) /\ Ord(a[k]) < Ord(b[k])

RECURSIVE sorted(_)
\* sorted(S) of a set of strings
sorted(S) ==
  IF S = {} THEN <<>>
  ELSE LET m == CHOOSE x \in S : \A y \in S \ {x} : StrLess(x, y)
       IN  <<m>> \o sorted(S \ {m})

Range(f) == {f[x] : x \in DOMAIN f}

\* a + b + c, the result of str.format on a two-placeholder format
Format(fmt, region, arg) == fmt \o region \o F_sep \o arg

\* ------------------------------------------------------------------------
\* fnmatch (POSIX: no case folding). Patterns are built from literal
\* characters, "*" and "?"; bracket expressions are not among the inputs.
\* ------------------------------------------------------------------------

RECURSIVE GlobAt(_, _, _, _)
GlobAt(pat, name, i, j) ==
  IF i > Len(pat) THEN j > Len(name)
  ELSE IF pat[i] = "*"
       THEN GlobAt(pat, name, i + 1, j)
            \/ (j <= Len(name) /\ GlobAt(pat, name, i, j + 1))
       ELSE /\ j <= Len(name)
            /\ (pat[i] = "?" \/ pat[i] = name[j])
            /\ GlobAt(pat, name, i + 1, j + 1)

fnmatchcase(name, pat) == GlobAt(pat, name, 1, 1)

\* fnmatch.filter(names, pat); the order of the result is never used
fnmatch_filter(names, pat) == {n \in names : fnmatchcase(n, pat)}

\* ------------------------------------------------------------------------
\* Values
\* ------------------------------------------------------------------------

\* The outcome of a call: exc names the exception the call ends with ("None"
\* for a normal return), msg is str(ex), val is the returned value.
Return(v) == [exc |-> "None", msg |-> <<>>, val |-> v]

Raise(e, m) == [exc |-> e, msg |-> m, val |-> <<>>]

\* A Python dict is a function; {} is the function with the empty domain.
EmptyDict == <<>>

\* DictSet keeping a key that is set again as a further item
DictSetAgain(d, k, v) ==
  LET key == IF k \in DOMAIN d THEN k \o k ELSE k
  IN  [x \in (DOMAIN d) \cup {key} |-> IF x = key THEN v ELSE d[x]]

\* d[k] = v
DictSet(d, k, v) ==
  [x \in (DOMAIN d) \cup {k} |-> IF x = k THEN v ELSE d[x]]

\* {k: v for k, v in d.items() if k in keys}
DictFilter(d, keys) == [k \in keys |-> d[k]]

\* A page of a paginator: the request for it either raises (str(ex) = msg) or
\* answers with its items.
Page(items) == [raises |-> FALSE, msg |-> <<>>, items |-> items]

FailingPage(m) == [raises |-> TRUE, msg |-> m, items |-> <<>>]

\* One element of ResourceDescriptions. Properties is a JSON text: valid says
\* whether it parses, doc is the document it parses to.
Description(id, doc) ==
  [Identifier |-> id, Properties |-> [valid |-> TRUE, doc |-> doc]]

Malformed(id) ==
  [Identifier |-> id, Properties |-> [valid |-> FALSE, doc |-> EmptyDict]]

\* json.loads(text)
json_loads(text) ==
  IF text.valid THEN Return(text.doc) ELSE Raise("JSONDecodeError", M_json)

\* ------------------------------------------------------------------------
\* apply_default_resources_filter
\* ------------------------------------------------------------------------

\* The cases of the match statement, one record per case. Every case keeps
\* the items of which one string is not a default: field is <<>> when that
\* string is the identifier k and the property name when it is v[field];
\* test says how the string is compared with the literals of the case
\* ("startswith": str.startswith, "contains": the in operator on strings,
\* "equals": == or membership in a tuple of literals).
DefaultResourceRules ==
  { [resource_type |->
        <<"A","W","S",":",":","A","p","p","C","o","n","f","i","g",":",":","D","e","p","l","o","y","m","e","n","t","S","t","r","a","t","e","g","y">>,
      field |-> <<>>, test |-> "startswith",
      literals |-> {
          <<"A","p","p","C","o","n","f","i","g",".">>}],
    [resource_type |->
        T_AppConfig_Extension,
      field |-> K_Arn, test |-> "contains",
      literals |-> {
          L_extension_AWS}],
    [resource_type |->
        <<"A","W","S",":",":","A","p","p","R","u","n","n","e","r",":",":","A","u","t","o","S","c","a","l","i","n","g","C","o","n","f","i","g","u","r","a","t","i","o","n">>,
      field |-> <<>>, test |-> "contains",
      literals |-> {
          <<":","a","u","t","o","s","c","a","l","i","n","g","c","o","n","f","i","g","u","r","a","t","i","o","n","/","D","e","f","a","u","l","t","C","o","n","f","i","g","u","r","a","t","i","o","n","/">>}],
    [resource_type |->
        <<"A","W","S",":",":","A","p","p","R","u","n","n","e","r",":",":","O","b","s","e","r","v","a","b","i","l","i","t","y","C","o","n","f","i","g","u","r","a","t","i","o","n">>,
      field |-> <<>>, test |-> "contains",
      literals |-> {
          <<":","o","b","s","e","r","v","a","b","i","l","i","t","y","c","o","n","f","i","g","u","r","a","t","i","o","n","/","D","e","f","a","u","l","t","C","o","n","f","i","g","u","r","a","t","i","o","n","/">>}],
    [resource_type |->
        <<"A","W","S",":",":","A","t","h","e","n","a",":",":","D","a","t","a","C","a","t","a","l","o","g">>,
      field |-> <<>>, test |-> "equals",
      literals |-> {
          <<"A","w","s","D","a","t","a","C","a","t","a","l","o","g">>}],
    [resource_type |->
        <<"A","W","S",":",":","A","t","h","e","n","a",":",":","W","o","r","k","G","r","o","u","p">>,
      field |-> <<>>, test |-> "equals",
      literals |-> {
          <<"p","r","i","m","a","r","y">>}],
    [resource_type |->
        <<"A","W","S",":",":","B","a","c","k","u","p",":",":","B","a","c","k","u","p","V","a","u","l","t">>,
      field |-> <<>>, test |-> "equals",
      literals |-> {
          <<"D","e","f","a","u","l","t">>}],
    [resource_type |->
        <<"A","W","S",":",":","C","a","s","s","a","n","d","r","a",":",":","K","e","y","s","p","a","c","e">>,
      field |-> <<>>, test |-> "equals",
      literals |-> {
          <<"s","y","s","t","e","m","_","m","u","l","t","i","r","e","g","i","o","n","_","i","n","f","o">>}],
    [resource_type |->
        <<"A","W","S",":",":","C","l","o","u","d","F","o","r","m","a","t","i","o","n",":",":","P","u","b","l","i","c","T","y","p","e","V","e","r","s","i","o","n">>,
      field |-> <<>>, test |-> "contains",
      literals |-> {
          <<":",":","t","y","p","e","/">>}],
    [resource_type |->
        <<"A","W","S",":",":","C","l","o","u","d","F","r","o","n","t",":",":","C","a","c","h","e","P","o","l","i","c","y">>,
      field |-> <<>>, test |-> "equals",
      literals |-> {
          <<"0","8","6","2","7","2","6","2","-","0","5","a","9","-","4","f","7","6","-","9","d","e","d","-","b","5","0","c","a","2","e","3","a","8","4","f">>,
          <<"1","7","3","2","2","e","9","3","-","4","7","0","7","-","4","4","5","a","-","9","3","b","c","-","6","c","8","c","1","6","6","2","1","8","2","2">>,
          <<"1","b","1","c","9","6","1","0","-","9","7","3","a","-","4","f","b","9","-","9","9","3","2","-","a","6","c","2","7","4","8","4","0","8","8","7">>,
          <<"1","c","6","d","b","5","1","a","-","a","3","3","f","-","4","6","9","a","-","8","2","4","5","-","d","a","e","2","6","7","7","1","f","5","3","0">>,
          <<"2","e","5","4","3","1","2","d","-","1","3","6","d","-","4","9","3","c","-","8","e","b","9","-","b","0","0","1","f","2","2","f","6","7","d","2">>,
          <<"4","1","3","5","e","a","2","d","-","6","d","f","8","-","4","4","a","3","-","9","d","f","3","-","4","b","5","a","8","4","b","e","3","9","a","d">>,
          <<"4","c","0","2","7","9","4","c","-","7","c","8","1","-","4","b","a","1","-","8","b","5","d","-","e","0","5","f","b","0","f","9","5","e","d","8">>,
          <<"4","c","c","1","5","a","8","a","-","d","7","1","5","-","4","8","a","4","-","8","2","b","8","-","c","c","0","b","6","1","4","6","3","8","f","e">>,
          <<"4","d","1","d","2","f","1","d","-","3","a","7","1","-","4","9","a","d","-","9","e","0","8","-","7","e","a","5","d","8","4","3","a","5","5","6">>,
          <<"6","5","8","3","2","7","e","a","-","f","8","9","d","-","4","f","a","b","-","a","6","3","d","-","7","e","8","8","6","3","9","e","5","8","f","6">>,
          <<"7","6","6","e","b","0","2","8","-","1","a","f","f","-","4","e","b","2","-","a","5","a","4","-","2","6","7","4","e","1","5","3","8","f","2","6">>,
          <<"7","e","5","f","a","d","6","7","-","e","e","9","8","-","4","a","d","0","-","b","0","5","a","-","3","9","4","9","9","9","e","e","f","c","1","a">>,
          <<"8","3","d","a","9","c","7","e","-","9","8","b","4","-","4","e","1","1","-","a","1","6","8","-","0","4","f","0","d","f","8","e","2","c","6","5">>,
          <<"a","6","b","a","d","9","4","6","-","3","6","c","3","-","4","c","3","3","-","a","a","9","8","-","3","6","2","c","7","4","a","7","f","b","1","3">>,
          <<"b","2","8","8","4","4","4","9","-","e","4","d","e","-","4","6","a","7","-","a","c","3","6","-","7","0","b","c","7","f","1","d","d","d","6","d">>}],
    [resource_type |->
        <<"A","W","S",":",":","C","l","o","u","d","F","r","o","n","t",":",":","O","r","i","g","i","n","R","e","q","u","e","s","t","P","o","l","i","c","y">>,
      field |-> <<>>, test |-> "equals",
      literals |-> {
          <<"2","1","6","a","d","e","f","6","-","5","c","7","f","-","4","7","e","4","-","b","9","8","9","-","5","4","9","2","e","a","f","a","0","7","d","3">>,
          <<"3","3","f","3","6","d","7","e","-","f","3","9","6","-","4","6","d","9","-","9","0","e","0","-","5","2","4","2","8","a","3","4","d","9","d","c">>,
          <<"5","9","7","8","1","a","5","b","-","3","9","0","3","-","4","1","f","3","-","a","f","c","b","-","a","f","6","2","9","2","9","c","c","d","e","1">>,
          <<"7","7","5","1","3","3","b","c","-","1","5","f","2","-","4","9","f","9","-","a","b","e","a","-","a","f","b","2","e","0","b","f","6","7","d","2">>,
          <<"8","8","a","5","e","a","f","4","-","2","f","d","4","-","4","7","0","9","-","b","3","7","0","-","b","4","c","6","5","0","e","a","3","f","c","f">>,
          <<"a","c","b","a","4","5","9","5","-","b","d","2","8","-","4","9","b","8","-","b","9","f","e","-","1","3","3","1","7","c","0","3","9","0","f","a">>,
          <<"b","6","8","9","b","0","a","8","-","5","3","d","0","-","4","0","a","b","-","b","a","f","2","-","6","8","7","3","8","e","2","9","6","6","a","c">>}],
    [resource_type |->
        <<"A","W","S",":",":","C","l","o","u","d","F","r","o","n","t",":",":","R","e","s","p","o","n","s","e","H","e","a","d","e","r","s","P","o","l","i","c","y">>,
      field |-> <<>>, test |-> "equals",
      literals |-> {
          <<"5","c","c","3","b","9","0","8","-","e","6","1","9","-","4","b","9","9","-","8","8","e","5","-","2","c","f","7","f","4","5","9","6","5","b","d">>,
          <<"6","0","6","6","9","6","5","2","-","4","5","5","b","-","4","a","e","9","-","8","5","a","4","-","c","4","c","0","2","3","9","3","f","8","6","c">>,
          <<"6","7","f","7","7","2","5","c","-","6","f","9","7","-","4","2","1","0","-","8","2","d","7","-","5","5","1","2","b","3","1","e","9","d","0","3">>,
          <<"e","6","1","e","b","6","0","c","-","9","c","3","5","-","4","d","2","0","-","a","9","2","8","-","2","b","8","4","e","0","2","a","f","8","9","c">>,
          <<"e","a","a","b","4","3","8","1","-","e","d","3","3","-","4","a","8","6","-","8","8","c","a","-","d","9","5","5","8","d","c","6","c","d","6","3">>}],
    [resource_type |->
        <<"A","W","S",":",":","C","l","o","u","d","T","r","a","i","l",":",":","D","a","s","h","b","o","a","r","d">>,
      field |-> <<"T","y","p","e">>, test |-> "equals",
      literals |-> {
          <<"M","A","N","A","G","E","D">>}],
    [resource_type |->
        <<"A","W","S",":",":","C","o","d","e","D","e","p","l","o","y",":",":","D","e","p","l","o","y","m","e","n","t","C","o","n","f","i","g">>,
      field |-> <<>>, test |-> "startswith",
      literals |-> {
          <<"C","o","d","e","D","e","p","l","o","y","D","e","f","a","u","l","t",".">>}],
    [resource_type |->
        <<"A","W","S",":",":","C","o","d","e","P","i","p","e","l","i","n","e",":",":","C","u","s","t","o","m","A","c","t","i","o","n","T","y","p","e">>,
      field |-> <<>>, test |-> "equals",
      literals |-> {
          <<"A","p","p","r","o","v","a","l","|","M","a","n","u","a","l","|","1">>,
          <<"B","u","i","l","d","|","C","o","d","e","B","u","i","l","d","|","1">>,
          <<"B","u","i","l","d","|","E","C","R","B","u","i","l","d","A","n","d","P","u","b","l","i","s","h","|","1">>,
          <<"C","o","m","p","u","t","e","|","C","o","m","m","a","n","d","s","|","1">>,
          <<"D","e","p","l","o","y","|","A","l","e","x","a","S","k","i","l","l","s","K","i","t","|","1">>,
          <<"D","e","p","l","o","y","|","A","p","p","C","o","n","f","i","g","|","1">>,
          <<"D","e","p","l","o","y","|","C","l","o","u","d","F","o","r","m","a","t","i","o","n","S","t","a","c","k","I","n","s","t","a","n","c","e","s","|","1">>,
          <<"D","e","p","l","o","y","|","C","l","o","u","d","F","o","r","m","a","t","i","o","n","S","t","a","c","k","S","e","t","|","1">>,
          <<"D","e","p","l","o","y","|","C","l","o","u","d","F","o","r","m","a","t","i","o","n","|","1">>,
          <<"D","e","p","l","o","y","|","C","o","d","e","D","e","p","l","o","y","T","o","E","C","S","|","1">>,
          <<"D","e","p","l","o","y","|","C","o","d","e","D","e","p","l","o","y","|","1">>,
          <<"D","e","p","l","o","y","|","E","C","2","|","1">>,
          <<"D","e","p","l","o","y","|","E","C","S","|","1">>,
          <<"D","e","p","l","o","y","|","E","K","S","|","1">>,
          <<"D","e","p","l","o","y","|","E","l","a","s","t","i","c","B","e","a","n","s","t","a","l","k","|","1">>,
          <<"D","e","p","l","o","y","|","O","p","s","W","o","r","k","s","|","1">>,
          <<"D","e","p","l","o","y","|","S","3","|","1">>,
          <<"D","e","p","l","o","y","|","S","e","r","v","i","c","e","C","a","t","a","l","o","g","|","1">>,
          <<"I","n","v","o","k","e","|","C","o","d","e","P","i","p","e","l","i","n","e","|","1">>,
          <<"I","n","v","o","k","e","|","I","n","s","p","e","c","t","o","r","S","c","a","n","|","1">>,
          <<"I","n","v","o","k","e","|","L","a","m","b","d","a","|","1">>,
          <<"I","n","v","o","k","e","|","S","n","y","k","|","1">>,
          <<"I","n","v","o","k","e","|","S","t","e","p","F","u","n","c","t","i","o","n","s","|","1">>,
          <<"S","o","u","r","c","e","|","C","o","d","e","C","o","m","m","i","t","|","1">>,
          <<"S","o","u","r","c","e","|","C","o","d","e","S","t","a","r","S","o","u","r","c","e","C","o","n","n","e","c","t","i","o","n","|","1">>,
          <<"S","o","u","r","c","e","|","E","C","R","|","1">>,
          <<"S","o","u","r","c","e","|","G","i","t","H","u","b","|","1">>,
          <<"S","o","u","r","c","e","|","S","3","|","1">>,
          <<"T","e","s","t","|","C","o","d","e","B","u","i","l","d","|","1">>,
          <<"T","e","s","t","|","D","e","v","i","c","e","F","a","r","m","|","1">>,
          <<"T","e","s","t","|","G","h","o","s","t","I","n","s","p","e","c","t","o","r","|","1">>,
          <<"T","e","s","t","|","M","F","S","t","o","r","m","R","u","n","n","e","r","|","1">>,
          <<"T","e","s","t","|","R","u","n","s","c","o","p","e","|","1">>}],
    [resource_type |->
        <<"A","W","S",":",":","E","C","2",":",":","P","r","e","f","i","x","L","i","s","t">>,
      field |-> <<"O","w","n","e","r","I","d">>, test |-> "equals",
      literals |-> {
          <<"A","W","S">>}],
    [resource_type |->
        <<"A","W","S",":",":","E","C","S",":",":","C","a","p","a","c","i","t","y","P","r","o","v","i","d","e","r">>,
      field |-> <<>>, test |-> "equals",
      literals |-> {
          <<"F","A","R","G","A","T","E">>,
          <<"F","A","R","G","A","T","E","_","S","P","O","T">>}],
    [resource_type |->
        <<"A","W","S",":",":","E","l","a","s","t","i","C","a","c","h","e",":",":","P","a","r","a","m","e","t","e","r","G","r","o","u","p">>,
      field |-> <<>>, test |-> "startswith",
      literals |-> {
          <<"d","e","f","a","u","l","t",".">>}],
    [resource_type |->
        <<"A","W","S",":",":","E","l","a","s","t","i","C","a","c","h","e",":",":","U","s","e","r">>,
      field |-> <<>>, test |-> "equals",
      literals |-> {
          <<"d","e","f","a","u","l","t">>}],
    [resource_type |->
        <<"A","W","S",":",":","E","v","e","n","t","s",":",":","E","v","e","n","t","B","u","s">>,
      field |-> <<>>, test |-> "equals",
      literals |-> {
          <<"d","e","f","a","u","l","t">>}],
    [resource_type |->
        <<"A","W","S",":",":","G","a","m","e","L","i","f","t",":",":","L","o","c","a","t","i","o","n">>,
      field |-> <<>>, test |-> "equals",
      literals |-> {
          <<"a","f","-","s","o","u","t","h","-","1">>,
          <<"a","f","-","s","o","u","t","h","-","1","-","l","o","s","-","1">>,
          <<"a","p","-","e","a","s","t","-","1">>,
          <<"a","p","-","n","o","r","t","h","e","a","s","t","-","1">>,
          <<"a","p","-","n","o","r","t","h","e","a","s","t","-","2">>,
          <<"a","p","-","n","o","r","t","h","e","a","s","t","-","3">>,
          <<"a","p","-","s","o","u","t","h","-","1">>,
          <<"a","p","-","s","o","u","t","h","e","a","s","t","-","1">>,
          <<"a","p","-","s","o","u","t","h","e","a","s","t","-","2">>,
          <<"c","a","-","c","e","n","t","r","a","l","-","1">>,
          <<"e","u","-","c","e","n","t","r","a","l","-","1">>,
          <<"e","u","-","n","o","r","t","h","-","1">>,
          <<"e","u","-","s","o","u","t","h","-","1">>,
          <<"e","u","-","w","e","s","t","-","1">>,
          <<"e","u","-","w","e","s","t","-","2">>,
          <<"e","u","-","w","e","s","t","-","3">>,
          <<"m","e","-","s","o","u","t","h","-","1">>,
          <<"s","a","-","e","a","s","t","-","1">>,
          <<"u","s","-","e","a","s","t","-","1">>,
          <<"u","s","-","e","a","s","t","-","1","-","a","t","l","-","1">>,
          <<"u","s","-","e","a","s","t","-","1","-","c","h","i","-","1">>,
          <<"u","s","-","e","a","s","t","-","1","-","d","f","w","-","1">>,
          <<"u","s","-","e","a","s","t","-","1","-","i","a","h","-","1">>,
          <<"u","s","-","e","a","s","t","-","1","-","m","c","i","-","1">>,
          <<"u","s","-","e","a","s","t","-","2">>,
          <<"u","s","-","w","e","s","t","-","1">>,
          <<"u","s","-","w","e","s","t","-","2">>,
          <<"u","s","-","w","e","s","t","-","2","-","d","e","n","-","1">>,
          <<"u","s","-","w","e","s","t","-","2","-","l","a","x","-","1">>,
          <<"u","s","-","w","e","s","t","-","2","-","p","h","x","-","1">>}],
    [resource_type |->
        <<"A","W","S",":",":","I","A","M",":",":","M","a","n","a","g","e","d","P","o","l","i","c","y">>,
      field |-> <<>>, test |-> "startswith",
      literals |-> {
          <<"a","r","n",":","a","w","s",":","i","a","m",":",":","a","w","s",":","p","o","l","i","c","y","/">>}],
    [resource_type |->
        <<"A","W","S",":",":","I","o","T",":",":","D","o","m","a","i","n","C","o","n","f","i","g","u","r","a","t","i","o","n">>,
      field |-> <<>>, test |-> "equals",
      literals |-> {
          <<"i","o","t",":","C","r","e","d","e","n","t","i","a","l","P","r","o","v","i","d","e","r">>,
          <<"i","o","t",":","D","a","t","a","-","A","T","S">>,
          <<"i","o","t",":","J","o","b","s">>}],
    [resource_type |->
        T_KMS_Alias,
      field |-> <<>>, test |-> "startswith",
      literals |-> {
          L_alias_aws}],
    [resource_type |->
        <<"A","W","S",":",":","M","e","d","i","a","L","i","v","e",":",":","C","l","o","u","d","W","a","t","c","h","A","l","a","r","m","T","e","m","p","l","a","t","e">>,
      field |-> K_Arn, test |-> "contains",
      literals |-> {
          <<":",":","c","l","o","u","d","w","a","t","c","h","-","a","l","a","r","m","-","t","e","m","p","l","a","t","e",":","a","w","s","-">>}],
    [resource_type |->
        <<"A","W","S",":",":","M","e","d","i","a","L","i","v","e",":",":","C","l","o","u","d","W","a","t","c","h","A","l","a","r","m","T","e","m","p","l","a","t","e","G","r","o","u","p">>,
      field |-> K_Arn, test |-> "contains",
      literals |-> {
          <<":",":","c","l","o","u","d","w","a","t","c","h","-","a","l","a","r","m","-","t","e","m","p","l","a","t","e","-","g","r","o","u","p",":","a","w","s","-">>}],
    [resource_type |->
        <<"A","W","S",":",":","M","e","m","o","r","y","D","B",":",":","A","C","L">>,
      field |-> <<>>, test |-> "equals",
      literals |-> {
          <<"o","p","e","n","-","a","c","c","e","s","s">>}],
    [resource_type |->
        <<"A","W","S",":",":","M","e","m","o","r","y","D","B",":",":","P","a","r","a","m","e","t","e","r","G","r","o","u","p">>,
      field |-> <<>>, test |-> "startswith",
      literals |-> {
          <<"d","e","f","a","u","l","t",".">>}],
    [resource_type |->
        <<"A","W","S",":",":","M","e","m","o","r","y","D","B",":",":","U","s","e","r">>,
      field |-> <<>>, test |-> "equals",
      literals |-> {
          <<"d","e","f","a","u","l","t">>}],
    [resource_type |->
        <<"A","W","S",":",":","R","A","M",":",":","P","e","r","m","i","s","s","i","o","n">>,
      field |-> <<"P","e","r","m","i","s","s","i","o","n","T","y","p","e">>, test |-> "equals",
      literals |-> {
          <<"A","W","S","_","M","A","N","A","G","E","D">>}],
    [resource_type |->
        <<"A","W","S",":",":","R","D","S",":",":","D","B","C","l","u","s","t","e","r","P","a","r","a","m","e","t","e","r","G","r","o","u","p">>,
      field |-> <<>>, test |-> "startswith",
      literals |-> {
          <<"d","e","f","a","u","l","t",".">>}],
    [resource_type |->
        <<"A","W","S",":",":","R","D","S",":",":","D","B","P","a","r","a","m","e","t","e","r","G","r","o","u","p">>,
      field |-> <<>>, test |-> "startswith",
      literals |-> {
          <<"d","e","f","a","u","l","t",".">>}],
    [resource_type |->
        <<"A","W","S",":",":","R","D","S",":",":","O","p","t","i","o","n","G","r","o","u","p">>,
      field |-> <<>>, test |-> "startswith",
      literals |-> {
          <<"d","e","f","a","u","l","t",":">>}],
    [resource_type |->
        <<"A","W","S",":",":","R","o","u","t","e","5","3","R","e","s","o","l","v","e","r",":",":","F","i","r","e","w","a","l","l","D","o","m","a","i","n","L","i","s","t">>,
      field |-> <<"C","r","e","a","t","o","r","R","e","q","u","e","s","t","I","d">>, test |-> "startswith",
      literals |-> {
          <<"A","W","S","M","a","n","a","g","e","d">>}],
    [resource_type |->
        <<"A","W","S",":",":","R","o","u","t","e","5","3","R","e","s","o","l","v","e","r",":",":","R","e","s","o","l","v","e","r","R","u","l","e">>,
      field |-> <<>>, test |-> "startswith",
      literals |-> {
          <<"r","s","l","v","r","-","a","u","t","o","d","e","f","i","n","e","d","-">>}],
    [resource_type |->
        <<"A","W","S",":",":","R","o","u","t","e","5","3","R","e","s","o","l","v","e","r",":",":","R","e","s","o","l","v","e","r","R","u","l","e","A","s","s","o","c","i","a","t","i","o","n">>,
      field |-> <<>>, test |-> "startswith",
      literals |-> {
          <<"r","s","l","v","r","-","a","u","t","o","d","e","f","i","n","e","d","-">>}],
    [resource_type |->
        <<"A","W","S",":",":","S","3",":",":","S","t","o","r","a","g","e","L","e","n","s">>,
      field |-> <<>>, test |-> "equals",
      literals |-> {
          <<"d","e","f","a","u","l","t","-","a","c","c","o","u","n","t","-","d","a","s","h","b","o","a","r","d">>}],
    [resource_type |->
        <<"A","W","S",":",":","S","S","M",":",":","D","o","c","u","m","e","n","t">>,
      field |-> <<>>, test |-> "startswith",
      literals |-> {
          <<"A","W","S">>,
          <<"A","l","e","r","t","L","o","g","i","c">>,
          <<"A","m","a","z","o","n">>,
          <<"A","w","s">>,
          <<"C","r","o","w","d","S","t","r","i","k","e">>,
          <<"D","y","n","a","t","r","a","c","e">>,
          <<"F","a","l","c","o","n","S","e","n","s","o","r">>,
          <<"N","e","w","-","R","e","l","i","c">>,
          <<"S","S","M">>,
          <<"T","r","e","n","d","M","i","c","r","o">>}],
    [resource_type |->
        <<"A","W","S",":",":","S","S","M",":",":","P","a","t","c","h","B","a","s","e","l","i","n","e">>,
      field |-> K_Name, test |-> "startswith",
      literals |-> {
          <<"A","W","S","-">>}],
    [resource_type |->
        <<"A","W","S",":",":","S","c","h","e","d","u","l","e","r",":",":","S","c","h","e","d","u","l","e","G","r","o","u","p">>,
      field |-> <<>>, test |-> "equals",
      literals |-> {
          <<"d","e","f","a","u","l","t">>}],
    [resource_type |->
        <<"A","W","S",":",":","X","R","a","y",":",":","G","r","o","u","p">>,
      field |-> <<>>, test |-> "contains",
      literals |-> {
          <<":","g","r","o","u","p","/","D","e","f","a","u","l","t">>}],
    [resource_type |->
        <<"A","W","S",":",":","X","R","a","y",":",":","S","a","m","p","l","i","n","g","R","u","l","e">>,
      field |-> <<>>, test |-> "contains",
      literals |-> {
          <<":","s","a","m","p","l","i","n","g","-","r","u","l","e","/","D","e","f","a","u","l","t">>}] }

\* The condition a case negates: the string is one of the defaults.
IsDefault(rule, string) ==
  \E literal \in rule.literals :
    CASE rule.test = "startswith" -> startswith(string, literal)
      [] rule.test = "contains" -> Contains(literal, string)
      [] rule.test = "equals" -> string = literal

\* apply_default_resources_filter with the cases shortened to dropping the
\* instance returned first, assumed to be the default one
apply_default_resources_filter_first(resource_type, resources) ==
  IF \/ resources = EmptyDict
     \/ \A rule \in DefaultResourceRules : rule.resource_type # resource_type
  THEN Return(resources)
  ELSE Return(DictFilter(resources,
         (DOMAIN resources) \ {sorted(DOMAIN resources)[1]}))

\* repr() of a string without quotes in it
repr(string) == <<"'">> \o string \o <<"'">>

\* The dict comprehension of a case. v[field] raises KeyError when a
\* properties document has no such field; str() of a KeyError is the repr()
\* of the key. case _ returns resources itself.
apply_default_resources_filter(resource_type, resources) ==
  LET cases == {rule \in DefaultResourceRules :
                  rule.resource_type = resource_type}
  IN  IF cases = {} THEN Return(resources)
      ELSE LET rule == CHOOSE c \in cases : TRUE
           IN  IF /\ rule.field # <<>>
                  /\ \E k \in DOMAIN resources :
                       rule.field \notin DOMAIN resources[k]
               THEN Raise("KeyError", repr(rule.field))
               ELSE Return(DictFilter(resources,
                      {k \in DOMAIN resources :
                         ~IsDefault(rule, IF rule.field = <<>> THEN k
                                          ELSE resources[k][rule.field])}))

\* ------------------------------------------------------------------------
\* get_supported_resource_types
\* ------------------------------------------------------------------------

\* for provisioning_type in ("FULLY_MUTABLE", "IMMUTABLE"):
ProvisioningTypes == <<"FULLY_MUTABLE", "IMMUTABLE">>

\* The loop over a page with the add replaced by an assignment
AddTypeNamesAssign(resource_types, items) == Range(items)

\* for type in list_types_page["TypeSummaries"]:
\*     resource_types.add(type["TypeName"])
AddTypeNames(resource_types, items) == resource_types \cup Range(items)

RECURSIVE ListTypesPages(_, _, _)
\* The loop over the pages of one provisioning type, from page i on.
ListTypesPages(pages, i, resource_types) ==
  IF i > Len(pages) THEN Return(resource_types)
  ELSE IF pages[i].raises THEN Raise("Exception", pages[i].msg)
  ELSE ListTypesPages(pages, i + 1,
                      AddTypeNames(resource_types, pages[i].items))

\* cloudformation_client answers list_types with the pages of each
\* provisioning type. list(set) has no defined order and every use of the
\* result ignores the order, so the result is a set.
get_supported_resource_types(cloudformation_client) ==
  LET mutable == ListTypesPages(cloudformation_client.FULLY_MUTABLE, 1, {})
  IN  IF mutable.exc # "None" THEN mutable
      ELSE ListTypesPages(cloudformation_client.IMMUTABLE, 1, mutable.val)

\* ------------------------------------------------------------------------
\* get_resources
\* ------------------------------------------------------------------------

Keywords == {KW_denied, KW_authorization, KW_authorized}

\* get_resources_except without the raise
get_resources_except_return(exception_msg, collected_resources) ==
  Return(collected_resources)

\* The except clause: a permission failure is re-raised as
\* DeniedListOperationException, any other failure falls through to the
\* return of what has been collected.
get_resources_except(exception_msg, collected_resources) ==
  IF \E keyword \in Keywords : Contains(keyword, lower(exception_msg))
  THEN Raise("DeniedListOperationException", <<>>)
  ELSE Return(collected_resources)

RECURSIVE ReadDescriptions(_, _, _)
\* The loop over the ResourceDescriptions of one page, from item i on. An
\* exception leaves the items stored before it in collected_resources.
ReadDescriptions(items, i, collected_resources) ==
  IF i > Len(items) THEN Return(collected_resources)
  ELSE LET parsed == json_loads(items[i].Properties)
       IN  IF parsed.exc # "None"
           THEN [exc |-> parsed.exc, msg |-> parsed.msg,
                 val |-> collected_resources]
           ELSE ReadDescriptions(items, i + 1,
                  DictSet(collected_resources, items[i].Identifier, parsed.val))

RECURSIVE ListResourcesPages(_, _, _)
\* The try block, from page i on.
ListResourcesPages(pages, i, collected_resources) ==
  IF i > Len(pages) THEN Return(collected_resources)
  ELSE IF pages[i].raises
       THEN get_resources_except(pages[i].msg, collected_resources)
       ELSE LET read == ReadDescriptions(pages[i].items, 1, collected_resources)
            IN  IF read.exc # "None"
                THEN get_resources_except(read.msg, read.val)
                ELSE ListResourcesPages(pages, i + 1, read.val)

\* cloudcontrol_client maps each resource type to the pages list_resources
\* answers with.
get_resources(cloudcontrol_client, resource_type) ==
  ListResourcesPages(cloudcontrol_client[resource_type], 1, EmptyDict)

\* ------------------------------------------------------------------------
\* The include / exclude arguments (analyze_region)
\* ------------------------------------------------------------------------

\* ArgumentPatterns without set(): the concatenation as it is
ArgumentPatternsList(include, exclude) == include \o exclude

\* sorted(set(args.include_resource_types + args.exclude_resource_types))
ArgumentPatterns(include, exclude) == sorted(Range(include \o exclude))

RECURSIVE IncludeTypes(_, _, _, _)
\* for pattern in args.include_resource_types: resource_types_enabled.update(...)
IncludeTypes(enabled, supported, include, i) ==
  IF i > Len(include) THEN enabled
  ELSE IncludeTypes(enabled \cup fnmatch_filter(supported, include[i]),
                    supported, include, i + 1)

RECURSIVE ExcludeTypes(_, _, _, _)
\* for pattern in args.exclude_resource_types: ....difference_update(...)
ExcludeTypes(enabled, supported, exclude, i) ==
  IF i > Len(exclude) THEN enabled
  ELSE ExcludeTypes(enabled \ fnmatch_filter(supported, exclude[i]),
                    supported, exclude, i + 1)

\* EnabledTypes with the exclude loop run before the include loop
EnabledTypesExcludeFirst(supported, include, exclude) ==
  sorted(IncludeTypes(ExcludeTypes({}, supported, exclude, 1),
                      supported, include, 1))

\* The sorted list of the resource types to list
EnabledTypes(supported, include, exclude) ==
  sorted(ExcludeTypes(IncludeTypes({}, supported, include, 1),
                      supported, exclude, 1))

\* ------------------------------------------------------------------------
\* The backend: what the CloudFormation registry and the Cloud Control API
\* of one region answer. It is fixed for the run.
\* ------------------------------------------------------------------------

Types == {T_AppConfig_Extension, T_KMS_Alias, T_KMS_Key}

\* The number of pages a paginator answers with at most
MaxPages == 2

\* n pages with the same answer
Pages(page, n) == [k \in 1..n |-> page]

NameDoc == [k \in {K_Name} |-> V_name]

ArnDoc(arn) == [k \in {K_Arn} |-> arn]

\* list_types
RegistryFull ==
  [FULLY_MUTABLE |-> <<Page(<<T_KMS_Alias, T_KMS_Key>>),
                       Page(<<T_AppConfig_Extension>>)>>,
   IMMUTABLE     |-> <<Page(<<T_KMS_Key>>)>>]

RegistryKeyOnly ==
  [FULLY_MUTABLE |-> <<Page(<<T_KMS_Key>>)>>,
   IMMUTABLE     |-> <<Page(<<>>)>>]

RegistryDown ==
  [FULLY_MUTABLE |-> <<FailingPage(M_Endpoint)>>,
   IMMUTABLE     |-> <<Page(<<T_KMS_Key>>)>>]

RegistryDeniedLate ==
  [FULLY_MUTABLE |-> <<Page(<<T_KMS_Alias, T_KMS_Key>>)>>,
   IMMUTABLE     |-> Pages(Page(<<T_AppConfig_Extension>>), MaxPages - 1)
                     \o <<FailingPage(M_AccessDenied)>>]

\* list_resources of AWS::AppConfig::Extension
ExtOwn == <<Page(<<Description(I_ext_1, ArnDoc(V_arn_own_ext))>>)>>

ExtDefaultOnly == <<Page(<<Description(I_ext_2, ArnDoc(V_arn_aws_ext))>>)>>

ExtWithoutArn ==
  <<Page(<<Description(I_ext_1, ArnDoc(V_arn_own_ext)),
           Description(I_ext_2, NameDoc)>>)>>

ExtMalformed ==
  <<Page(<<Description(I_ext_1, ArnDoc(V_arn_own_ext)), Malformed(I_ext_2)>>)>>

\* list_resources of AWS::KMS::Alias
AliasMixed ==
  <<Page(<<Description(I_alias_aws_s3, NameDoc),
           Description(I_alias_app, NameDoc)>>)>>
  \o Pages(Page(<<Description(I_alias_app, NameDoc)>>), MaxPages - 1)

AliasDefaultOnly == <<Page(<<Description(I_alias_aws_s3, NameDoc)>>)>>

AliasDeniedLate ==
  Pages(Page(<<Description(I_alias_app, NameDoc)>>), MaxPages - 1)
  \o <<FailingPage(M_AccessDenied)>>

AliasNotAuthorized == <<FailingPage(M_not_authorized)>>

\* list_resources of AWS::KMS::Key
KeyTwo ==
  <<Page(<<Description(I_key_1, NameDoc), Description(I_key_2, NameDoc)>>)>>

KeyNone == <<Page(<<>>)>>

KeyNotFoundLate ==
  Pages(Page(<<Description(I_key_1, NameDoc)>>), MaxPages - 1)
  \o <<FailingPage(M_NotFound)>>

KeyUnsupported == <<FailingPage(M_Unsupported)>>

KeyDenied == <<FailingPage(M_Denied)>>

KeyAuthorizationError == <<FailingPage(M_AuthorizationError)>>

CloudControl(ext, alias, key) ==
  [t \in Types |->
     IF t = T_AppConfig_Extension THEN ext
     ELSE IF t = T_KMS_Alias THEN alias ELSE key]

RegionBackend(registry, cloudcontrol) ==
  [cloudformation |-> registry, cloudcontrol |-> cloudcontrol]

RegionBackends ==
  { RegionBackend(RegistryDown, CloudControl(ExtOwn, AliasMixed, KeyTwo)),
    RegionBackend(RegistryDeniedLate, CloudControl(ExtOwn, AliasMixed, KeyTwo)),
    RegionBackend(RegistryFull, CloudControl(ExtDefaultOnly, AliasMixed, KeyTwo)),
    RegionBackend(RegistryFull,
                  CloudControl(ExtOwn, AliasDeniedLate, KeyNotFoundLate)),
    RegionBackend(RegistryFull,
                  CloudControl(ExtWithoutArn, AliasDefaultOnly, KeyNone)),
    RegionBackend(RegistryFull,
                  CloudControl(ExtWithoutArn, AliasMixed, KeyTwo)),
    RegionBackend(RegistryFull,
                  CloudControl(ExtMalformed, AliasNotAuthorized, KeyDenied)),
    RegionBackend(RegistryFull,
                  CloudControl(ExtOwn, AliasMixed, KeyUnsupported)),
    RegionBackend(RegistryKeyOnly,
                  CloudControl(ExtOwn, AliasMixed, KeyAuthorizationError)) }

\* The answers of a region no run reaches
UnreachedBackend ==
  RegionBackend(RegistryDown, CloudControl(ExtOwn, AliasMixed, KeyTwo))

\* ------------------------------------------------------------------------
\* The arguments
\* ------------------------------------------------------------------------

\* --regions, as parse_regions returns it: sorted and without duplicates, or
\* the string "ALL", which is kept here as the list of that one string (a
\* list parse_regions returns never holds "ALL")
RegionChoices ==
  { <<R_us_east_1>>,
    <<R_eu_west_1, R_us_east_1>>,
    <<R_eu_west_1, R_me_south_1>>,
    <<S_ALL>> }

\* describe_regions(AllRegions=False): the names of the regions enabled in
\* the account, in the order of the response, or a failure
AccountChoices ==
  { Return(<<R_us_east_1, R_eu_west_1>>), Raise("Exception", M_Endpoint) }

\* --include-resource-types and --exclude-resource-types, as
\* parse_resource_types returns them; the first is the default
PatternChoices ==
  { [include |-> <<P_all>>, exclude |-> <<>>],
    [include |-> <<P_KMS_all>>, exclude |-> <<P_KMS_Key>>],
    [include |-> <<P_KMS_Key, P_S3_all>>, exclude |-> <<P_S3_all, P_any_Alias>>],
    [include |-> <<P_all>>, exclude |-> <<P_KMS_3, P_S3_all>>],
    [include |-> <<P_any_Alias, P_all>>, exclude |-> <<P_KMS_all, P_KMS_Key>>] }

\* ------------------------------------------------------------------------
\* State
\* ------------------------------------------------------------------------

VARIABLES
  args,               \* the parsed arguments
  backend,            \* region -> what the region's services answer
  result_collection,  \* the shared aggregate
  frame,              \* region -> the locals and position of its worker
  main,               \* the position of the main thread
  listed,             \* region -> the types list_resources was called for
  out_file,           \* the JSON document written
  account,            \* what describe_regions answers
  filter_call,        \* a call of apply_default_resources_filter on its own
  list_types_call     \* a call of get_supported_resource_types on its own

vars == <<args, backend, result_collection, frame, main, listed, out_file,
          account, filter_call, list_types_call>>

\* The regions of the run: those a worker is to be submitted for
TargetRegions == DOMAIN frame

\* The positions of a worker in analyze_region
Terminated == {"done", "raised"}

\* log_error appending to the list of the first region of the run
log_error_first_region(collection, msg, region) ==
  [collection EXCEPT !._metadata.errors[args.regions[1]] = Append(@, msg)]

\* result_collection["_metadata"]["errors"][region].append(msg)
log_error(collection, msg, region) ==
  [collection EXCEPT !._metadata.errors[region] = Append(@, msg)]

\* StoredValue with the count taken of the test: 1 for a collection that
\* is not empty
StoredValueOfTest(resources, only_show_counts) ==
  IF only_show_counts THEN (IF resources # EmptyDict THEN 1 ELSE 0)
  ELSE resources

\* len(resources) or resources, by args.only_show_counts
StoredValue(resources, only_show_counts) ==
  IF only_show_counts THEN Cardinality(DOMAIN resources) ELSE resources

\* StoreEntry writing into the slot of the first target region
StoreEntryFirstRegion(collection, region, resource_type, value) ==
  [collection EXCEPT !.regions[args.regions[1]] =
     DictSet(@, resource_type, value)]

\* result_collection["regions"][region][resource_type] = ...
StoreEntry(collection, region, resource_type, value) ==
  [collection EXCEPT !.regions[region] = DictSet(@, resource_type, value)]

\* Truthy without the test
TruthyAlways(resources) == TRUE

\* if resources:
Truthy(resources) == resources # EmptyDict

\* The position after the body of the for loop for enabled[i]
NextType(f) ==
  [f EXCEPT !.i = @ + 1,
            !.pc = IF f.i + 1 > Len(f.resource_types_enabled)
                   THEN "done" ELSE "list"]

\* json.dump(..., sort_keys=True): a dict is written as its items in the
\* order of their keys; dumped maps each key to its value as written
DumpDict(dumped) ==
  LET keys == sorted(DOMAIN dumped)
  IN  [n \in 1..Len(keys) |-> <<keys[n], dumped[keys[n]]>>]

\* The value of a (region, type) entry as written: the count, or the
\* instances with their properties
DumpResources(value, only_show_counts) ==
  IF only_show_counts THEN value
  ELSE DumpDict([id \in DOMAIN value |-> DumpDict(value[id])])

\* The account, principal, invocation and timestamp entries of _metadata do
\* not depend on the workers and are left out.
json_dump(collection, only_show_counts) ==
  [_metadata |-> [errors |-> DumpDict(collection._metadata.errors)],
   regions  |-> DumpDict(
     [region \in DOMAIN collection.regions |->
        DumpDict([resource_type \in DOMAIN collection.regions[region] |->
                    DumpResources(collection.regions[region][resource_type],
                                  only_show_counts)])])]

NotWritten == <<"not written">>

\* No call on its own is under way
NotCalled == [pc |-> "not called"]

\* result_collection before its assignment
NotCreated == [created |-> FALSE]

\* The regions named by --regions and, for ALL, those of the account
NamedRegions(regions, enabled_regions) ==
  IF regions = <<S_ALL>> THEN Range(enabled_regions) ELSE Range(regions)

\* What the services of the named regions answer. A named region that is
\* not enabled answers as fixed: no run reaches it. Nothing is named when
\* describe_regions fails.
Backends(regions, describe_regions) ==
  LET named == IF describe_regions.exc # "None" THEN {}
               ELSE NamedRegions(regions, describe_regions.val)
  IN  {answers \in [named -> RegionBackends] :
         \A region \in named \ Range(describe_regions.val) :
           answers[region] = UnreachedBackend}

\* The state when the arguments are parsed and the credentials are found
\* valid
Init ==
  /\ \E regions \in RegionChoices, patterns \in PatternChoices,
        counts \in BOOLEAN :
       args = [regions |-> regions,
               include_resource_types |-> patterns.include,
               exclude_resource_types |-> patterns.exclude,
               only_show_counts |-> counts]
  /\ account \in AccountChoices
  /\ backend \in Backends(args.regions, account)
  /\ result_collection = NotCreated
  /\ frame = <<>>
  /\ main = [pc |-> "regions", next |-> 1, exit_status |-> 0]
  /\ listed = <<>>
  /\ out_file = NotWritten
  /\ filter_call = NotCalled
  /\ list_types_call = NotCalled

\* ------------------------------------------------------------------------
\* The main thread
\* ------------------------------------------------------------------------

\* executor.submit(analyze_region, region): the pool (at least five threads)
\* starts a thread for the region at once
\* InvalidRegions looking at the first region only
InvalidRegionsFirstOnly(regions, enabled_regions) ==
  {regions[1]} \ Range(enabled_regions)

\* The regions the loop of lines 490-493 would stop at
InvalidRegions(regions, enabled_regions) ==
  Range(regions) \ Range(enabled_regions)

\* "Prepare target regions": describe_regions, then either ALL is replaced
\* by the enabled regions or every region is looked up in them; sys.exit(1)
\* on a failure of the call and on a region that is not enabled
PrepareRegions ==
  /\ main.pc = "regions"
  /\ IF account.exc # "None"
     THEN /\ main' = [main EXCEPT !.pc = "sys_exit", !.exit_status = 1]
          /\ args' = args
     ELSE IF args.regions = <<S_ALL>>
     THEN /\ args' = [args EXCEPT !.regions = sorted(Range(account.val))]
          /\ main' = [main EXCEPT !.pc = "collection"]
     ELSE IF InvalidRegions(args.regions, account.val) # {}
     THEN /\ main' = [main EXCEPT !.pc = "sys_exit", !.exit_status = 1]
          /\ args' = args
     ELSE /\ main' = [main EXCEPT !.pc = "collection"]
          /\ args' = args
  /\ UNCHANGED <<account, filter_call, list_types_call>>
  /\ UNCHANGED <<backend, result_collection, frame, listed, out_file>>

\* "Prepare result collection structure": one slot per region in both maps.
\* No worker exists yet; the frames and call records of the workers to come
\* are laid out here.
PrepareCollection ==
  /\ main.pc = "collection"
  /\ result_collection' =
       [_metadata |-> [errors |-> [r \in Range(args.regions) |-> <<>>]],
        regions  |-> [r \in Range(args.regions) |-> EmptyDict]]
  /\ frame' = [r \in Range(args.regions) |->
                [pc |-> "unsubmitted",
                 resource_types_supported |-> {},
                 patterns |-> <<>>,
                 resource_types_enabled |-> <<>>,
                 i |-> 0,
                 provisioning_type |-> 1,
                 page |-> 0,
                 resource_types |-> {},
                 collected_resources |-> EmptyDict,
                 resources |-> EmptyDict,
                 msg |-> <<>>,
                 continue |-> "none"]]
  /\ listed' = [r \in Range(args.regions) |-> <<>>]
  /\ main' = [main EXCEPT !.pc = "submit"]
  /\ UNCHANGED <<account, filter_call, list_types_call>>
  /\ UNCHANGED <<args, backend, out_file>>

Submit ==
  /\ main.pc = "submit"
  /\ LET region == args.regions[main.next]
     IN  frame' = [frame EXCEPT ![region].pc = "catalog"]
  /\ main' = [main EXCEPT
                !.pc = IF main.next = Len(args.regions)
                       THEN "shutdown" ELSE "submit",
                !.next = main.next + 1]
  /\ UNCHANGED <<account, filter_call, list_types_call>>
  /\ UNCHANGED <<args, backend, result_collection, listed, out_file>>

\* AllJoined of executor.shutdown(wait=False)
AllJoinedNoWait == TRUE

\* The workers the exit of the with block waits for
AllJoined == \A r \in TargetRegions : frame[r].pc \in Terminated

\* The end of the with block: executor.shutdown(wait=True). An exception a
\* worker ended with stays in its future, which nobody reads.
Shutdown ==
  /\ main.pc = "shutdown"
  /\ AllJoined
  /\ main' = [main EXCEPT !.pc = "dump"]
  /\ UNCHANGED <<account, filter_call, list_types_call>>
  /\ UNCHANGED <<args, backend, result_collection, frame, listed, out_file>>

Dump ==
  /\ main.pc = "dump"
  /\ out_file' = json_dump(result_collection, args.only_show_counts)
  /\ main' = [main EXCEPT !.pc = "exit"]
  /\ UNCHANGED <<account, filter_call, list_types_call>>
  /\ UNCHANGED <<args, backend, result_collection, frame, listed>>

\* ------------------------------------------------------------------------
\* analyze_region(region), one action per stretch between two accesses to
\* the network or to result_collection: every list_types and list_resources
\* request of a paginator is an access of its own. A worker at "catalog" or
\* "list_resources" waits for the answer to request page + 1.
\* ------------------------------------------------------------------------

\* AfterCatalogFailure without the return statement
AfterCatalogFailureNoReturn == "patterns"

\* The position log_error returns to after the catalog failure: return
AfterCatalogFailure == "done"

\* The answer to one list_types request of get_supported_resource_types and
\* the loop over its page: the paginator of a provisioning type asks on while
\* pages are left, then the next provisioning type starts; after the last
\* one the function returns into analyze_region. An exception is caught by
\* the try of analyze_region.
ReadSupportedTypes(region) ==
  /\ frame[region].pc = "catalog"
  /\ LET f == frame[region]
         feed == backend[region].cloudformation[
                   ProvisioningTypes[f.provisioning_type]]
         n == f.page + 1
         resource_types == AddTypeNames(f.resource_types, feed[n].items)
     IN  frame' = [frame EXCEPT ![region] =
           IF feed[n].raises
           THEN [f EXCEPT !.msg = Format(F_unable, region, feed[n].msg),
                          !.pc = "log_error",
                          !.continue = AfterCatalogFailure,
                          !.provisioning_type = 1,
                          !.page = 0,
                          !.resource_types = {}]
           ELSE IF n < Len(feed)
           THEN [f EXCEPT !.page = n, !.resource_types = resource_types]
           ELSE IF f.provisioning_type < Len(ProvisioningTypes)
           THEN [f EXCEPT !.provisioning_type = @ + 1,
                          !.page = 0,
                          !.resource_types = resource_types]
           ELSE [f EXCEPT !.resource_types_supported = resource_types,
                          !.patterns = ArgumentPatterns(
                                         args.include_resource_types,
                                         args.exclude_resource_types),
                          !.pc = "patterns",
                          !.provisioning_type = 1,
                          !.page = 0,
                          !.resource_types = {}]]
  /\ UNCHANGED <<account, filter_call, list_types_call>>
  /\ UNCHANGED <<args, backend, result_collection, main, listed, out_file>>

\* One round of the loop over the argument patterns
CheckPattern(region) ==
  /\ frame[region].pc = "patterns"
  /\ frame[region].patterns # <<>>
  /\ LET pattern == Head(frame[region].patterns)
         unmatched ==
           fnmatch_filter(frame[region].resource_types_supported, pattern) = {}
     IN  frame' = [frame EXCEPT ![region] =
           IF unmatched
           THEN [@ EXCEPT !.patterns = Tail(@),
                          !.msg = Format(F_nomatch, region, pattern),
                          !.pc = "log_error",
                          !.continue = "patterns"]
           ELSE [@ EXCEPT !.patterns = Tail(@)]]
  /\ UNCHANGED <<account, filter_call, list_types_call>>
  /\ UNCHANGED <<args, backend, result_collection, main, listed, out_file>>

\* Filter resource types by include and exclude arguments
FilterTypes(region) ==
  /\ frame[region].pc = "patterns"
  /\ frame[region].patterns = <<>>
  /\ LET enabled == EnabledTypes(frame[region].resource_types_supported,
                                 args.include_resource_types,
                                 args.exclude_resource_types)
     IN  frame' = [frame EXCEPT ![region] =
           [@ EXCEPT !.resource_types_enabled = enabled,
                     !.i = 1,
                     !.pc = IF enabled = <<>> THEN "done" ELSE "list"]]
  /\ UNCHANGED <<account, filter_call, list_types_call>>
  /\ UNCHANGED <<args, backend, result_collection, main, listed, out_file>>

\* The start of the body of the for loop: print, and get_resources up to
\* its first list_resources request
ListType(region) ==
  /\ frame[region].pc = "list"
  /\ LET f == frame[region]
     IN  /\ listed' = [listed EXCEPT ![region] =
                         Append(@, f.resource_types_enabled[f.i])]
         /\ frame' = [frame EXCEPT ![region] =
              [f EXCEPT !.pc = "list_resources",
                        !.page = 0,
                        !.collected_resources = EmptyDict]]
  /\ UNCHANGED <<account, filter_call, list_types_call>>
  /\ UNCHANGED <<args, backend, result_collection, main, out_file>>

\* The answer to one list_resources request and the loop over its page; at
\* the end of the pages or at an exception, the rest of get_resources and of
\* the body of the for loop up to the write: the except clause,
\* apply_default_resources_filter and the test. Only
\* DeniedListOperationException is caught; any other exception ends the
\* worker.
ListResources(region) ==
  /\ frame[region].pc = "list_resources"
  /\ LET f == frame[region]
         resource_type == f.resource_types_enabled[f.i]
         pages == backend[region].cloudcontrol[resource_type]
         n == f.page + 1
         read == ReadDescriptions(pages[n].items, 1, f.collected_resources)
         got == IF pages[n].raises
                THEN get_resources_except(pages[n].msg, f.collected_resources)
                ELSE IF read.exc # "None"
                THEN get_resources_except(read.msg, read.val)
                ELSE read
         filtered == apply_default_resources_filter(resource_type, got.val)
         ended == [f EXCEPT !.page = 0, !.collected_resources = EmptyDict]
     IN  frame' = [frame EXCEPT ![region] =
           IF ~pages[n].raises /\ read.exc = "None" /\ n < Len(pages)
           THEN [f EXCEPT !.page = n, !.collected_resources = read.val]
           ELSE IF got.exc = "DeniedListOperationException"
           THEN [ended EXCEPT !.msg = Format(F_denied, region, resource_type),
                              !.pc = "log_error",
                              !.continue = "next"]
           ELSE IF filtered.exc # "None"
           THEN [ended EXCEPT !.pc = "raised"]
           ELSE IF Truthy(filtered.val)
           THEN [ended EXCEPT !.resources = filtered.val, !.pc = "store"]
           ELSE NextType(ended)]
  /\ UNCHANGED <<account, filter_call, list_types_call>>
  /\ UNCHANGED <<args, backend, result_collection, main, listed, out_file>>

\* result_collection["regions"][region][resource_type] = ...
StoreResult(region) ==
  /\ frame[region].pc = "store"
  /\ LET f == frame[region]
     IN  result_collection' =
           StoreEntry(result_collection, region, f.resource_types_enabled[f.i],
                      StoredValue(f.resources, args.only_show_counts))
  /\ frame' = [frame EXCEPT ![region] = NextType(@)]
  /\ UNCHANGED <<account, filter_call, list_types_call>>
  /\ UNCHANGED <<args, backend, main, listed, out_file>>

\* log_error(msg, region) and the statement after the call
LogError(region) ==
  /\ frame[region].pc = "log_error"
  /\ result_collection' = log_error(result_collection, frame[region].msg, region)
  /\ LET f == frame[region]
     IN  frame' = [frame EXCEPT ![region] =
           IF f.continue = "next" THEN NextType(f)
           ELSE [f EXCEPT !.pc = f.continue]]
  /\ UNCHANGED <<account, filter_call, list_types_call>>
  /\ UNCHANGED <<args, backend, main, listed, out_file>>

Next ==
  \/ PrepareRegions
  \/ PrepareCollection
  \/ Submit
  \/ Shutdown
  \/ Dump
  \/ \E region \in TargetRegions : ReadSupportedTypes(region)
  \/ \E region \in TargetRegions : CheckPattern(region)
  \/ \E region \in TargetRegions : FilterTypes(region)
  \/ \E region \in TargetRegions : ListType(region)
  \/ \E region \in TargetRegions : ListResources(region)
  \/ \E region \in TargetRegions : StoreResult(region)
  \/ \E region \in TargetRegions : LogError(region)

Spec == Init /\ [][Next]_vars

\* ------------------------------------------------------------------------
\* apply_default_resources_filter on its own: the function is applied to a
\* collection and then to what it returned.
\* ------------------------------------------------------------------------

\* The number of instances of a collection at most
MaxInstances == 2

I_own == <<"o","w","n">>

\* A string the rule's condition holds for, made from one of its literals
DefaultString(rule, literal) ==
  CASE rule.test = "startswith" -> literal \o <<"x">>
    [] rule.test = "contains" -> <<"a">> \o literal \o <<"b">>
    [] rule.test = "equals" -> literal

\* The strings a case is tried on: defaults made from its first and last
\* literal, its first literal cut short by one character, and a string of
\* the account's own
RuleStrings(rule) ==
  LET literals == sorted(rule.literals)
      first == literals[1]
  IN  { DefaultString(rule, first),
        DefaultString(rule, literals[Len(literals)]),
        SubSeq(first, 1, Len(first) - 1),
        I_own }

\* The collections a case is tried on. A rule on the identifier gets the
\* strings as identifiers; a rule on a property gets documents with the
\* strings as the property and a document without the property.
RuleResources(rule) ==
  IF rule.field = <<>>
  THEN {[k \in ids |-> NameDoc] :
          ids \in {S \in SUBSET RuleStrings(rule) :
                     Cardinality(S) <= MaxInstances}}
  ELSE LET docs == {[f \in {rule.field} |-> string] :
                      string \in RuleStrings(rule)} \cup {EmptyDict}
       IN  UNION {[ids -> docs] :
                    ids \in {S \in SUBSET {I_ext_1, I_ext_2, I_key_1} :
                               Cardinality(S) <= MaxInstances}}

\* The calls: every case of the match statement on its collections, and a
\* type without a case
FilterCalls ==
  UNION {{[resource_type |-> rule.resource_type, resources |-> resources] :
            resources \in RuleResources(rule)} :
           rule \in DefaultResourceRules} \cup
  {[resource_type |-> T_KMS_Key, resources |-> [k \in ids |-> NameDoc]] :
     ids \in SUBSET {I_key_1, I_key_2, L_alias_aws \o <<"x">>}}

\* The program itself is not run
ProgramNotRun ==
  /\ args = [regions |-> <<>>, include_resource_types |-> <<P_all>>,
             exclude_resource_types |-> <<>>, only_show_counts |-> FALSE]
  /\ backend = <<>>
  /\ account = Return(<<>>)
  /\ result_collection = NotCreated
  /\ frame = <<>>
  /\ main = [pc |-> "exit", next |-> 1, exit_status |-> 0]
  /\ listed = <<>>
  /\ out_file = NotWritten

InitFilter ==
  /\ ProgramNotRun
  /\ list_types_call = NotCalled
  /\ \E call \in FilterCalls :
       filter_call = [pc |-> "call", resource_type |-> call.resource_type,
                      resources |-> call.resources,
                      once |-> Return(EmptyDict), twice |-> Return(EmptyDict)]

\* once = apply_default_resources_filter(resource_type, resources)
ApplyFilter ==
  /\ filter_call.pc = "call"
  /\ LET once == apply_default_resources_filter(filter_call.resource_type,
                                                filter_call.resources)
     IN  filter_call' =
           [filter_call EXCEPT !.once = once,
              !.pc = IF once.exc = "None" THEN "again" ELSE "raised"]
  /\ UNCHANGED <<args, backend, result_collection, frame, main, listed,
                 out_file, account, list_types_call>>

\* twice = apply_default_resources_filter(resource_type, once)
ApplyFilterAgain ==
  /\ filter_call.pc = "again"
  /\ LET twice == apply_default_resources_filter(filter_call.resource_type,
                                                 filter_call.once.val)
     IN  filter_call' = [filter_call EXCEPT !.twice = twice,
                                            !.pc = "returned"]
  /\ UNCHANGED <<args, backend, result_collection, frame, main, listed,
                 out_file, account, list_types_call>>

NextFilter ==
  \/ ApplyFilter
  \/ ApplyFilterAgain

SpecFilter == InitFilter /\ [][NextFilter]_vars

\* ------------------------------------------------------------------------
\* get_supported_resource_types on its own, one action per list_types
\* request. The paginator asks for the next page as long as the answer
\* carries a NextToken.
\* ------------------------------------------------------------------------

\* The requests the model follows a paginator for
MaxRequests == MaxPages + 2

\* The answers to a list_types request
TypesPageChoices ==
  { Page(<<T_KMS_Alias, T_KMS_Key>>),
    Page(<<T_AppConfig_Extension, T_KMS_Key>>),
    Page(<<>>),
    FailingPage(M_Endpoint) }

\* The pages of one provisioning type
TypesFeeds == UNION {[1..n -> TypesPageChoices] : n \in 1..MaxPages}

\* list(resource_types): the elements of the set in any order
ListOf(set) ==
  {order \in [1..Cardinality(set) -> set] :
     \A m, n \in 1..Cardinality(set) : order[m] = order[n] => m = n}

\* tokens holds the provisioning types for which the registry answers
\* every request with a NextToken: it answers the requests after the last
\* page of the feed with that page again, under a new token.
InitListTypes ==
  /\ ProgramNotRun
  /\ filter_call = NotCalled
  /\ \E fully_mutable \in TypesFeeds, immutable \in TypesFeeds,
        tokens \in {{}, {"FULLY_MUTABLE"}, {"IMMUTABLE"}} :
       list_types_call =
         [pc |-> "paginate",
          cloudformation_client |-> [FULLY_MUTABLE |-> fully_mutable,
                                     IMMUTABLE |-> immutable],
          tokens |-> tokens,
          provisioning_type |-> 1,
          requests |-> 0,
          resource_types |-> {},
          result |-> <<>>]

\* One list_types request of the paginator and the loop body for its page
ListTypesRequest ==
  /\ list_types_call.pc = "paginate"
  /\ list_types_call.requests < MaxRequests
  /\ LET call == list_types_call
         provisioning_type == ProvisioningTypes[call.provisioning_type]
         feed == call.cloudformation_client[provisioning_type]
         n == call.requests + 1
         page == feed[IF n > Len(feed) THEN Len(feed) ELSE n]
         next_token == n < Len(feed) \/ provisioning_type \in call.tokens
     IN  list_types_call' =
           IF page.raises
           THEN [call EXCEPT !.pc = "raised", !.requests = n]
           ELSE IF next_token
           THEN [call EXCEPT
                   !.requests = n,
                   !.resource_types = AddTypeNames(@, page.items)]
           ELSE IF call.provisioning_type < Len(ProvisioningTypes)
           THEN [call EXCEPT
                   !.provisioning_type = @ + 1,
                   !.requests = 0,
                   !.resource_types = AddTypeNames(@, page.items)]
           ELSE [call EXCEPT
                   !.pc = "return",
                   !.requests = n,
                   !.resource_types = AddTypeNames(@, page.items)]
  /\ UNCHANGED <<args, backend, result_collection, frame, main, listed,
                 out_file, account, filter_call>>

\* return list(resource_types)
ListTypesReturn ==
  /\ list_types_call.pc = "return"
  /\ \E result \in ListOf(list_types_call.resource_types) :
       list_types_call' = [list_types_call EXCEPT !.pc = "returned",
                                                  !.result = result]
  /\ UNCHANGED <<args, backend, result_collection, frame, main, listed,
                 out_file, account, filter_call>>

NextListTypes ==
  \/ ListTypesRequest
  \/ ListTypesReturn

SpecListTypes == InitListTypes /\ [][NextListTypes]_vars

\* ------------------------------------------------------------------------
\* Properties
\* ------------------------------------------------------------------------

Entries(region) == result_collection.regions[region]

Errors(region) == result_collection._metadata.errors[region]

\* The registry of the region, as get_supported_resource_types reads it
Catalog(region) == get_supported_resource_types(backend[region].cloudformation)

CatalogFails(region) == Catalog(region).exc # "None"

MatchesAny(resource_type, patterns) ==
  \E n \in 1..Len(patterns) : fnmatchcase(resource_type, patterns[n])

\* The failure a page meets: the request raises, or one of its Properties
\* does not parse. A sequence of at most one message.
PageFailure(page) ==
  IF page.raises THEN <<page.msg>>
  ELSE IF \E n \in 1..Len(page.items) : ~page.items[n].Properties.valid
       THEN <<M_json>> ELSE <<>>

RECURSIVE FirstFailure(_, _)
\* The first failure of a listing, from page i on
FirstFailure(pages, i) ==
  IF i > Len(pages) THEN <<>>
  ELSE IF PageFailure(pages[i]) # <<>> THEN PageFailure(pages[i])
  ELSE FirstFailure(pages, i + 1)

\* The failure the listing of resource_type in region meets, if any
ListingFailure(region, resource_type) ==
  FirstFailure(backend[region].cloudcontrol[resource_type], 1)

IsDenial(failure) ==
  failure # <<>> /\ \E keyword \in Keywords : Contains(keyword, lower(failure[1]))

IsOtherFailure(failure) == failure # <<>> /\ ~IsDenial(failure)

\* The first failure of the listing is raised by a list_resources request
RequestFails(region, resource_type) ==
  LET pages == backend[region].cloudcontrol[resource_type]
  IN  \E n \in 1..Len(pages) :
         /\ pages[n].raises
         /\ \A k \in 1..(n - 1) : PageFailure(pages[k]) = <<>>

\* The worker of region has ended and had called list_resources for the type
ListedAndEnded(region, resource_type) ==
  frame[region].pc \in Terminated /\ resource_type \in Range(listed[region])

RECURSIVE IsolatedListing(_, _, _, _, _)
\* analyze_region's for loop run on its own from type i on
IsolatedListing(region, enabled, i, entries, errors) ==
  IF i > Len(enabled) THEN [regions |-> entries, errors |-> errors]
  ELSE LET got == get_resources(backend[region].cloudcontrol, enabled[i])
           filtered == apply_default_resources_filter(enabled[i], got.val)
       IN  IF got.exc # "None"
           THEN IsolatedListing(region, enabled, i + 1, entries,
                  Append(errors, F_denied \o region \o F_sep \o enabled[i]))
           ELSE IF filtered.exc # "None"
           THEN [regions |-> entries, errors |-> errors]
           ELSE IF filtered.val = EmptyDict
           THEN IsolatedListing(region, enabled, i + 1, entries, errors)
           ELSE IsolatedListing(region, enabled, i + 1,
                  [t \in (DOMAIN entries) \cup {enabled[i]} |->
                     IF t # enabled[i] THEN entries[t]
                     ELSE IF args.only_show_counts
                          THEN Cardinality(DOMAIN filtered.val)
                          ELSE filtered.val],
                  errors)

\* What a run for the region alone leaves in the region's two slots
IsolatedRun(region) ==
  IF CatalogFails(region)
  THEN [regions |-> EmptyDict,
        errors |-> <<F_unable \o region \o F_sep \o Catalog(region).msg>>]
  ELSE LET patterns == ArgumentPatterns(args.include_resource_types,
                                        args.exclude_resource_types)
           unmatched == SelectSeq(patterns,
                          LAMBDA p : \A t \in Catalog(region).val :
                                        ~fnmatchcase(t, p))
           warnings == [n \in 1..Len(unmatched) |->
                          F_nomatch \o region \o F_sep \o unmatched[n]]
       IN  IsolatedListing(region,
             EnabledTypes(Catalog(region).val, args.include_resource_types,
                          args.exclude_resource_types),
             1, EmptyDict, warnings)

\* C1: a resource type of a region's registry that matches an exclude
\* pattern is never listed in the region and never has an entry in the
\* region's results, whatever include pattern it matches too.
ExcludeDominance ==
  \A region \in TargetRegions : \A resource_type \in Types :
     (/\ ~CatalogFails(region)
      /\ resource_type \in Catalog(region).val
      /\ MatchesAny(resource_type, args.exclude_resource_types))
     => /\ resource_type \notin Range(listed[region])
        /\ resource_type \notin DOMAIN Entries(region)

\* A worker has listed its types and ended while a type of its registry
\* matched both an include and an exclude pattern.
ExcludeDominanceWitness ==
  \E region \in TargetRegions : \E resource_type \in Types :
     /\ ~CatalogFails(region)
     /\ resource_type \in Catalog(region).val
     /\ MatchesAny(resource_type, args.include_resource_types)
     /\ MatchesAny(resource_type, args.exclude_resource_types)
     /\ frame[region].pc = "done"
     /\ listed[region] # <<>>

\* C2: no entry of a region's results is an empty collection or the count 0,
\* in either mode.
NoEmptyEntry ==
  \A region \in TargetRegions : \A resource_type \in DOMAIN Entries(region) :
     IF args.only_show_counts
     THEN Entries(region)[resource_type] > 0
     ELSE Entries(region)[resource_type] # EmptyDict

\* In counts mode a listing has returned instances that were all default
\* resources, the worker has ended and the type has no entry.
NoEmptyEntryWitness ==
  \E region \in TargetRegions : \E resource_type \in Types :
     LET got == get_resources(backend[region].cloudcontrol, resource_type)
     IN  /\ args.only_show_counts
         /\ ListedAndEnded(region, resource_type)
         /\ frame[region].pc = "done"
         /\ got.exc = "None"
         /\ got.val # EmptyDict
         /\ apply_default_resources_filter(resource_type, got.val).val = EmptyDict
         /\ resource_type \notin DOMAIN Entries(region)

\* C3: a listing request that fails with a message holding "denied",
\* "authorization" or "authorized" in any case is handled as Denied (a denial
\* is logged, nothing is stored); one that fails with any other message is
\* handled neither as Denied nor as Success (no denial is logged, nothing is
\* stored).
FailureClassification ==
  \A region \in TargetRegions : \A resource_type \in Types :
     LET failure == ListingFailure(region, resource_type)
         denial == F_denied \o region \o F_sep \o resource_type
     IN  (/\ ListedAndEnded(region, resource_type)
          /\ frame[region].pc = "done"
          /\ RequestFails(region, resource_type))
         => /\ IsDenial(failure) =>
                 /\ denial \in Range(Errors(region))
                 /\ resource_type \notin DOMAIN Entries(region)
            /\ IsOtherFailure(failure) =>
                 /\ denial \notin Range(Errors(region))
                 /\ resource_type \notin DOMAIN Entries(region)

\* C4: when a worker has ended, every listing of it that met a failure other
\* than a denial has an entry in the region's error list that carries the
\* failure message.
OtherFailureLogged ==
  \A region \in TargetRegions : \A resource_type \in Types :
     LET failure == ListingFailure(region, resource_type)
     IN  (ListedAndEnded(region, resource_type) /\ IsOtherFailure(failure))
         => \E n \in 1..Len(Errors(region)) :
               Contains(failure[1], Errors(region)[n])

\* C5: a region whose registry query fails is never listed and never gets a
\* result entry, its error list never holds more than the one catalog
\* failure message, which it holds when the worker has ended; and once every
\* worker has ended each sibling holds what a run for it alone leaves.
CatalogFailureIsRegionScoped ==
  \A region \in TargetRegions :
     CatalogFails(region)
     => /\ listed[region] = <<>>
        /\ Entries(region) = EmptyDict
        /\ Len(Errors(region)) <= 1
        /\ frame[region].pc \notin {"unsubmitted", "catalog", "log_error"}
             => /\ frame[region].pc = "done"
                /\ Errors(region) =
                     <<F_unable \o region \o F_sep \o Catalog(region).msg>>
        /\ \A sibling \in TargetRegions \ {region} :
              frame[sibling].pc \in Terminated
              => /\ Entries(sibling) = IsolatedRun(sibling).regions
                 /\ Errors(sibling) = IsolatedRun(sibling).errors

\* One region's registry query has failed and its worker has ended, while
\* the sibling, whose registry answered, has ended with entries.
CatalogFailureWitness ==
  \E region \in TargetRegions : \E sibling \in TargetRegions \ {region} :
     /\ CatalogFails(region)
     /\ frame[region].pc = "done"
     /\ Len(Errors(region)) = 1
     /\ ~CatalogFails(sibling)
     /\ frame[sibling].pc = "done"
     /\ Entries(sibling) # EmptyDict

\* C6: no failure of a (region, type) unit leaves the unit: no worker ends
\* with an exception, and a worker that has ended has listed every enabled
\* type of its region.
FailureStaysInUnit ==
  \A region \in TargetRegions :
     (frame[region].pc \in Terminated /\ ~CatalogFails(region))
     => /\ frame[region].pc = "done"
        /\ listed[region] =
             EnabledTypes(Catalog(region).val, args.include_resource_types,
                          args.exclude_resource_types)

\* C7: the final aggregate and the document written are the ones the
\* isolated runs of the regions give, whatever the interleaving was.
AggregationIsCommutative ==
  main.pc \in {"dump", "exit"}
  => /\ \A region \in TargetRegions :
          /\ Entries(region) = IsolatedRun(region).regions
          /\ Errors(region) = IsolatedRun(region).errors
     /\ main.pc = "exit" =>
          out_file = json_dump(
            [_metadata |-> [errors |-> [r \in TargetRegions |->
                                         IsolatedRun(r).errors]],
             regions  |-> [r \in TargetRegions |-> IsolatedRun(r).regions]],
            args.only_show_counts)

\* The document of a run of two regions has been written, and both regions
\* have entries and error messages.
AggregationWitness ==
  /\ main.pc = "exit"
  /\ Len(args.regions) = 2
  /\ \A region \in TargetRegions :
        Entries(region) # EmptyDict /\ Errors(region) # <<>>

\* C8: at most one worker at a time is at a write to the aggregate (the
\* store of an entry or the append of log_error).
MutualExclusion ==
  Cardinality({region \in TargetRegions :
                 frame[region].pc \in {"store", "log_error"}}) <= 1

\* C9: the aggregate is dumped only when every worker has ended, also one
\* that ended with an exception, and what is written is the aggregate as it
\* is afterwards: no worker writes once the dump has started.
DumpAfterJoin ==
  /\ main.pc \in {"dump", "exit"} =>
       \A region \in TargetRegions : frame[region].pc \in Terminated
  /\ main.pc = "exit" =>
       out_file = json_dump(result_collection, args.only_show_counts)
  /\ main.pc # "exit" => out_file = NotWritten

\* The document has been written in a run in which one worker ended with an
\* exception and another one stored entries.
DumpAfterJoinWitness ==
  /\ main.pc = "exit"
  /\ \E region \in TargetRegions : frame[region].pc = "raised"
  /\ \E region \in TargetRegions :
        frame[region].pc = "done" /\ Entries(region) # EmptyDict

\* C10: in the document written, the error list of every region is sorted
\* and holds no message twice.
ErrorListsSortedAndUnique ==
  main.pc = "exit"
  => \A n \in 1..Len(out_file._metadata.errors) :
        LET errors == out_file._metadata.errors[n][2]
        IN  \A k \in 1..(Len(errors) - 1) : StrLess(errors[k], errors[k + 1])

\* C11: apply_default_resources_filter is idempotent: applied to what it
\* returned for a resource type, it returns that collection unchanged.
FilterIsIdempotent ==
  filter_call.pc = "returned"
    => /\ filter_call.twice.exc = "None"
       /\ filter_call.twice.val = filter_call.once.val

\* A call that removed a default and kept another instance, applied again
FilterIsIdempotentWitness ==
  /\ filter_call.pc = "returned"
  /\ filter_call.once.val # filter_call.resources
  /\ filter_call.once.val # EmptyDict
  /\ \E rule \in DefaultResourceRules :
       /\ rule.resource_type = filter_call.resource_type
       /\ rule.field # <<>>

\* C12: an explicitly requested region that is not enabled in the account
\* ends the run with exit status 1 before the aggregate exists and before
\* any worker exists, so nothing is listed and nothing is written; a run
\* that reaches its end has exit status 0 whatever its workers met.
FailFastOnInvalidRegion ==
  /\ ( /\ account.exc = "None"
       /\ args.regions # <<S_ALL>>
       /\ Range(args.regions) \ Range(account.val) # {}
       /\ main.pc # "regions" )
     => /\ main.pc = "sys_exit"
        /\ main.exit_status = 1
        /\ result_collection = NotCreated
        /\ DOMAIN frame = {}
        /\ DOMAIN listed = {}
        /\ out_file = NotWritten
  /\ main.pc \notin {"regions", "sys_exit"} => main.exit_status = 0

\* The run has ended on a region that is not enabled, requested next to a
\* region that is
FailFastOnInvalidRegionWitness ==
  /\ main.pc = "sys_exit"
  /\ account.exc = "None"
  /\ Range(args.regions) \ Range(account.val) # {}
  /\ Range(args.regions) \cap Range(account.val) # {}

\* C13: when a worker has run through its types, every listing of it has
\* left its mark in one place only: a listing without a failure logs no
\* denial, a denied listing logs its denial and stores no entry, and a
\* listing of which a request met any other failure stores no entry and logs
\* no denial, also when the pages before the failure returned instances.
ExactlyOneOutcome ==
  \A region \in TargetRegions : \A resource_type \in Types :
     LET failure == ListingFailure(region, resource_type)
         denied == F_denied \o region \o F_sep \o resource_type
                     \in Range(Errors(region))
         stored == resource_type \in DOMAIN Entries(region)
     IN  (ListedAndEnded(region, resource_type) /\ frame[region].pc = "done")
         => /\ failure = <<>> => ~denied
            /\ IsDenial(failure) => denied /\ ~stored
            /\ (IsOtherFailure(failure) /\ RequestFails(region, resource_type))
                 => ~stored /\ ~denied

\* The place of a resource type among the enabled types of a worker, 0 when
\* it is not enabled
EnabledIndex(region, resource_type) ==
  LET enabled == frame[region].resource_types_enabled
  IN  IF resource_type \in Range(enabled)
      THEN CHOOSE n \in 1..Len(enabled) : enabled[n] = resource_type
      ELSE 0

\* C14: a listing that is denied never stores an entry for its type, also
\* when the pages before the denial returned instances; once the worker is
\* past the type the region's error list holds the denial message of the
\* type exactly once, and a worker that has ended has gone on to list the
\* type that follows.
DenialLoggedOnce ==
  \A region \in TargetRegions : \A resource_type \in Types :
     LET n == EnabledIndex(region, resource_type)
         denial == F_denied \o region \o F_sep \o resource_type
         enabled == frame[region].resource_types_enabled
     IN  (/\ resource_type \in Range(listed[region])
          /\ IsDenial(ListingFailure(region, resource_type)))
         => /\ resource_type \notin DOMAIN Entries(region)
            /\ (frame[region].pc \in Terminated \/ frame[region].i > n)
                 => Cardinality({k \in 1..Len(Errors(region)) :
                                   Errors(region)[k] = denial}) = 1
            /\ (frame[region].pc \in Terminated /\ n < Len(enabled))
                 => enabled[n + 1] \in Range(listed[region])

\* A worker has ended after a listing that returned instances on its first
\* page and was denied on a later one, and has listed the type after it
DenialLoggedOnceWitness ==
  \E region \in TargetRegions :
     LET pages == backend[region].cloudcontrol[T_KMS_Alias]
     IN  /\ frame[region].pc = "done"
         /\ T_KMS_Alias \in Range(listed[region])
         /\ T_KMS_Key \in Range(listed[region])
         /\ IsDenial(ListingFailure(region, T_KMS_Alias))
         /\ Len(pages) > 1
         /\ ~pages[1].raises /\ pages[1].items # <<>>

\* C15: when the document is written, every region whose registry query
\* succeeded has an entry for every enabled type whose listing met no
\* failure and returned an instance that is not a default resource, whatever
\* happened to the other types of the region.
PartialResultsComplete ==
  main.pc = "exit"
  => \A region \in TargetRegions :
        ~CatalogFails(region)
        => \A resource_type \in
                Range(EnabledTypes(Catalog(region).val,
                                   args.include_resource_types,
                                   args.exclude_resource_types)) :
              LET got == get_resources(backend[region].cloudcontrol,
                                       resource_type)
                  kept == apply_default_resources_filter(resource_type,
                                                         got.val)
              IN  (/\ ListingFailure(region, resource_type) = <<>>
                   /\ got.exc = "None"
                   /\ kept.exc = "None"
                   /\ kept.val # EmptyDict)
                  => resource_type \in DOMAIN Entries(region)

\* C16: the paginator of get_supported_resource_types stops by itself: it
\* never has made every request the model follows and is about to make
\* another one, whatever the registry answers.
PaginationStops ==
  ~ /\ list_types_call.pc = "paginate"
    /\ list_types_call.requests >= MaxRequests

\* The names on the pages of a feed
FeedTypeNames(feed) == UNION {Range(feed[n].items) : n \in 1..Len(feed)}

\* C17: the list get_supported_resource_types returns holds exactly the type
\* names on the pages of the FULLY_MUTABLE feed and of the IMMUTABLE feed,
\* each name once.
CatalogIsUnionOfFeeds ==
  list_types_call.pc = "returned"
  => LET client == list_types_call.cloudformation_client
         names == FeedTypeNames(client.FULLY_MUTABLE)
                    \cup FeedTypeNames(client.IMMUTABLE)
     IN  /\ Range(list_types_call.result) = names
         /\ Len(list_types_call.result) = Cardinality(names)
         /\ get_supported_resource_types(client) = Return(names)

\* A call has returned a name that is on two pages of one feed and on a
\* page of the other feed, and a name that is in one feed only
CatalogIsUnionOfFeedsWitness ==
  /\ list_types_call.pc = "returned"
  /\ LET client == list_types_call.cloudformation_client
     IN  /\ Len(client.FULLY_MUTABLE) > 1
         /\ \A n \in 1..Len(client.FULLY_MUTABLE) :
               T_KMS_Key \in Range(client.FULLY_MUTABLE[n].items)
         /\ T_KMS_Key \in FeedTypeNames(client.IMMUTABLE)
         /\ T_AppConfig_Extension \in FeedTypeNames(client.FULLY_MUTABLE)
                                        \ FeedTypeNames(client.IMMUTABLE)

\* The worker of region has got the registry and is past the test of the
\* patterns
PastPatterns(region) ==
  /\ ~CatalogFails(region)
  /\ frame[region].pc \notin {"unsubmitted", "catalog", "patterns"}
  /\ ~(frame[region].pc = "log_error" /\ frame[region].continue = "patterns")

\* The pattern matches no type of the region's registry
Unmatched(region, pattern) ==
  \A resource_type \in Catalog(region).val : ~fnmatchcase(resource_type, pattern)

\* C18: once a worker is past the test of the patterns, the region's error
\* list holds the warning of every include or exclude pattern that matches
\* no supported type exactly once, also for a pattern given in both lists,
\* and no warning of any other pattern; the enabled types are the ones the
\* arguments without the unmatched patterns enable, and only they are listed.
UnmatchedPatternWarnedOnce ==
  \A region \in TargetRegions :
     PastPatterns(region)
     => LET include == args.include_resource_types
            exclude == args.exclude_resource_types
            matched(p) == ~Unmatched(region, p)
        IN  /\ \A pattern \in Range(include \o exclude) :
                  Cardinality({n \in 1..Len(Errors(region)) :
                     Errors(region)[n] = Format(F_nomatch, region, pattern)})
                  = IF Unmatched(region, pattern) THEN 1 ELSE 0
            /\ frame[region].resource_types_enabled =
                 EnabledTypes(Catalog(region).val,
                              SelectSeq(include, matched),
                              SelectSeq(exclude, matched))
            /\ Range(listed[region])
                 \subseteq Range(frame[region].resource_types_enabled)

\* A worker has ended with an entry stored in a region where a pattern given
\* as include and as exclude matches no type
UnmatchedPatternWarnedOnceWitness ==
  \E region \in TargetRegions :
     /\ PastPatterns(region)
     /\ frame[region].pc = "done"
     /\ Entries(region) # EmptyDict
     /\ \E pattern \in Range(args.include_resource_types)
                         \cap Range(args.exclude_resource_types) :
          Unmatched(region, pattern)

\* The descriptions list_resources returns for the type, over all pages
ReturnedDescriptions(region, resource_type) ==
  LET pages == backend[region].cloudcontrol[resource_type]
  IN  UNION {Range(pages[n].items) : n \in 1..Len(pages)}

\* The identifiers among them that are not default resources
SurvivingIdentifiers(region, resource_type) ==
  {description.Identifier :
     description \in
       {d \in ReturnedDescriptions(region, resource_type) :
          apply_default_resources_filter(resource_type,
            [k \in {d.Identifier} |-> d.Properties.doc]).val # EmptyDict}}

\* C19: the entry of a listing that met no failure holds every surviving
\* identifier once, however often list_resources returned it: the stored
\* collection has exactly these identifiers, and the stored count is their
\* number.
IdentifiersOnce ==
  \A region \in TargetRegions : \A resource_type \in DOMAIN Entries(region) :
     ListingFailure(region, resource_type) = <<>>
     => LET identifiers == SurvivingIdentifiers(region, resource_type)
            entry == Entries(region)[resource_type]
        IN  IF args.only_show_counts
            THEN entry = Cardinality(identifiers)
            ELSE DOMAIN entry = identifiers

\* In counts mode an entry is stored for a listing that returned one
\* surviving identifier on more than one page
IdentifiersOnceWitness ==
  \E region \in TargetRegions : \E resource_type \in DOMAIN Entries(region) :
     LET pages == backend[region].cloudcontrol[resource_type]
     IN  /\ args.only_show_counts
         /\ ListingFailure(region, resource_type) = <<>>
         /\ \E m, n \in 1..Len(pages) :
              /\ m < n
              /\ \E d \in Range(pages[m].items) :
                   /\ d \in Range(pages[n].items)
                   /\ d.Identifier
                        \in SurvivingIdentifiers(region, resource_type)

\* A step of the worker of region leaves the slots of every other region in
\* both maps as they are, and the keys of both maps too
WorkerStepIsLocal(region) ==
  (frame[region].pc # "unsubmitted" /\ frame'[region] # frame[region])
  => /\ DOMAIN result_collection'.regions = DOMAIN result_collection.regions
     /\ DOMAIN result_collection'._metadata.errors
          = DOMAIN result_collection._metadata.errors
     /\ \A other \in TargetRegions \ {region} :
          /\ result_collection'.regions[other]
               = result_collection.regions[other]
          /\ result_collection'._metadata.errors[other]
               = result_collection._metadata.errors[other]

\* Both maps have a slot for exactly the regions of the run from the moment
\* the aggregate exists, which is before any worker is submitted
SlotsAreTargetRegions ==
  /\ result_collection # NotCreated
       => /\ DOMAIN result_collection.regions = Range(args.regions)
          /\ DOMAIN result_collection._metadata.errors = Range(args.regions)
  /\ result_collection = NotCreated => DOMAIN frame = {}

\* C20: the worker of a region changes only that region's result map and
\* error list: no step of it changes another region's slot or the keys of
\* either map, and the keys are the requested regions from before the first
\* worker starts.
RegionIsolation ==
  /\ []SlotsAreTargetRegions
  /\ [][\A region \in TargetRegions : WorkerStepIsLocal(region)]_vars

\* The worker of one region has ended with entries and messages written
\* while the worker of another region has written nothing yet
RegionIsolationWitness ==
  \E region \in TargetRegions : \E other \in TargetRegions \ {region} :
     /\ frame[region].pc = "done"
     /\ Entries(region) # EmptyDict
     /\ Errors(region) # <<>>
     /\ frame[other].pc \in {"unsubmitted", "catalog"}
     /\ Entries(other) = EmptyDict
     /\ Errors(other) = <<>>

RECURSIVE FullModeListing(_, _, _, _, _)
\* analyze_region's for loop from type i on when args.only_show_counts is
\* False
FullModeListing(region, enabled, i, entries, errors) ==
  IF i > Len(enabled) THEN [regions |-> entries, errors |-> errors]
  ELSE LET got == get_resources(backend[region].cloudcontrol, enabled[i])
           filtered == apply_default_resources_filter(enabled[i], got.val)
       IN  IF got.exc # "None"
           THEN FullModeListing(region, enabled, i + 1, entries,
                  Append(errors, Format(F_denied, region, enabled[i])))
           ELSE IF filtered.exc # "None"
           THEN [regions |-> entries, errors |-> errors]
           ELSE IF filtered.val = EmptyDict
           THEN FullModeListing(region, enabled, i + 1, entries, errors)
           ELSE FullModeListing(region, enabled, i + 1,
                  [t \in (DOMAIN entries) \cup {enabled[i]} |->
                     IF t = enabled[i] THEN filtered.val ELSE entries[t]],
                  errors)

\* What a run without --only-show-counts leaves in the region's two slots,
\* for the same arguments otherwise and the same answers of the services
FullModeRun(region) ==
  IF CatalogFails(region)
  THEN [regions |-> EmptyDict,
        errors |-> <<Format(F_unable, region, Catalog(region).msg)>>]
  ELSE LET patterns == ArgumentPatterns(args.include_resource_types,
                                        args.exclude_resource_types)
           unmatched == {n \in 1..Len(patterns) :
                           Unmatched(region, patterns[n])}
           warnings == [k \in 1..Cardinality(unmatched) |->
                          Format(F_nomatch, region,
                            patterns[CHOOSE n \in unmatched :
                              Cardinality({m \in unmatched : m < n}) = k - 1])]
       IN  FullModeListing(region,
             EnabledTypes(Catalog(region).val, args.include_resource_types,
                          args.exclude_resource_types),
             1, EmptyDict, warnings)

\* C21: for the same arguments otherwise and the same answers, the run
\* without --only-show-counts ends with the entries and error lists of
\* FullModeRun, and the run with it ends with the same keys and the same
\* error lists, each count being the number of instances stored for the key
\* without it.
CountsAgreeWithFullMode ==
  main.pc = "exit"
  => \A region \in TargetRegions :
        LET full == FullModeRun(region)
        IN  /\ DOMAIN Entries(region) = DOMAIN full.regions
            /\ Errors(region) = full.errors
            /\ \A resource_type \in DOMAIN Entries(region) :
                 Entries(region)[resource_type]
                   = IF args.only_show_counts
                     THEN Cardinality(DOMAIN full.regions[resource_type])
                     ELSE full.regions[resource_type]

\* A run with --only-show-counts has ended with a count above one and an
\* error message in one region and a listed type without an entry in some
\* region
CountsAgreeWithFullModeWitness ==
  /\ main.pc = "exit"
  /\ args.only_show_counts
  /\ \E region \in TargetRegions :
       /\ Errors(region) # <<>>
       /\ \E resource_type \in DOMAIN Entries(region) :
            Entries(region)[resource_type] > 1
  /\ \E region \in TargetRegions :
       Range(listed[region]) \ DOMAIN Entries(region) # {}

====
